---------------------------- MODULE Spec2Model ----------------------------
(***************************************************************************)
(* A model of batqa-proxy (src/main.go): the per-IP sliding-window rate    *)
(* limiter, the accept loop with its admission checks, Stop, the           *)
(* per-connection handler and its two relay directions.                    *)
(*                                                                         *)
(* Time is an integer clock `now` (time.Now()); a window is a number of    *)
(* clock ticks.  Three specifications share the state:                     *)
(*   SpecRL    RateLimiter.Allow and RateLimiter.cleanup on their own      *)
(*   Spec      Proxy.Start, Proxy.Stop and the handlers, one step per      *)
(*             access to shared state                                      *)
(*   SpecRelay one connection's relay, byte by byte                        *)
(***************************************************************************)
EXTENDS Integers, Sequences, FiniteSets, TLC

\* ------------------------------------------------------------- bounds
\* The clock runs from 0 to MaxTime under SpecRL.
MaxTime == 2
\* Config.RateLimit is drawn from 0..MaxLimit.
MaxLimit == 2
\* The limiter's window is drawn from 1..MaxWindow ticks.
MaxWindow == 2

\* Config.MaxConns is drawn from 1..MaxM.
MaxM == 1
\* Connections the listener is offered under Spec.
MaxArrivals == 2
\* Bytes the peers send, over both directions, under SpecRelay.
RelayBytes == 5
\* Bytes the peers send, over both directions, under SpecTimed.
TimedBytes == 2

\* Source addresses (the host part of conn.RemoteAddr()).
IPs == {"ip1", "ip2"}
\* Connection identities, in the order Accept returns them.
Conns == 1..MaxArrivals
\* The two relay directions of a connection, and the socket each reads and writes.
Dirs == {"c2t", "t2c"}
Src(d) == IF d = "c2t" THEN "client" ELSE "ts"
Dst(d) == IF d = "c2t" THEN "ts" ELSE "client"
\* The bytes of the relayed protocol: the frame delimiter and any other byte.
NL == "nl"
Bytes == {"x", NL}

VARIABLES
    \* RateLimiter (src/main.go:48-53)
    requests,   \* rl.requests: a function from the keys present to their timestamps
    limit,      \* rl.limit
    window,     \* rl.window
    now,        \* the clock time.Now() reads
    \* history of the Allow calls (not program state)
    granted,    \* per key, the times at which Allow returned true, never pruned
    lastCall,   \* the Allow call the last step made, if it made one: [ip, ok, prior,
                \* stored], prior the number of earlier grants for ip newer than the
                \* call's cutoff, stored whether the call changed rl.requests
    horizon,    \* the last clock value of this run
    \* Proxy (src/main.go:113-120), Config and Stats
    maxConns,        \* p.config.MaxConns
    stats,           \* p.stats: [total, active, commands, bytes]
    listenerStored,  \* p.listener # nil
    listenerClosed,  \* the listening socket is closed
    shutdown,        \* p.shutdown is closed
    wg,              \* the counter of p.wg
    startPc,         \* where Start is
    cur,             \* the connection Start holds between Accept and the dispatch
    stopPc,          \* where Stop is
    nextConn,        \* the number of connections Accept has returned
    arrivals,        \* the number of connections this run offers the listener
    \* one entry per connection
    hpc,        \* where the connection's handler is
    connIp,     \* the host of conn.RemoteAddr()
    sock,       \* the proxy's two sockets, [client, ts]: none, open, eof (open, and
                \* the peer has closed its end) or closed (by the proxy)
    done,       \* the number of values in the done channel (capacity 2)
    connStats,  \* [bytes, cmds]: bytesTransferred and commandCount
    \* one entry per connection and direction
    rpc,        \* where the relay goroutine is
    inbuf,      \* the bytes its source has sent that ReadBytes has not returned yet
    line,       \* the line ReadBytes returned last
    wErr,       \* its bufio.Writer holds an error
    tmp,        \* the value of bytesTransferred it has loaded for its +=
    \* history (not program state)
    sentBytes,  \* per connection and direction, every byte the source sent
    delivered,  \* per connection and direction, the frames written to the destination
    afterStop,  \* per connection, whether Accept returned it after close(p.shutdown)
    preStop,    \* the connections dispatched when Stop was invoked
    bytesLeft   \* the bytes the peers may still send in this run

rlVars == <<requests, limit, window, now, granted, lastCall, horizon>>
lifeVars == <<maxConns, listenerStored, listenerClosed, shutdown, wg, startPc, cur,
              stopPc, nextConn, arrivals, afterStop, preStop>>
connVars == <<hpc, connIp, sock, done, connStats>>
relayVars == <<rpc, inbuf, line, wErr, tmp, sentBytes, delivered, bytesLeft>>

vars == <<requests, limit, window, now, granted, lastCall, horizon,
          maxConns, stats, listenerStored, listenerClosed, shutdown, wg, startPc, cur,
          stopPc, nextConn, arrivals, hpc, connIp, sock, done, connStats,
          rpc, inbuf, line, wErr, tmp, sentBytes, delivered, afterStop, preStop,
          bytesLeft>>

\* ------------------------------------------------------- RateLimiter

\* rl.requests[ip]: a key that is absent reads as the nil slice.
Get(reqs, ip) == IF ip \in DOMAIN reqs THEN reqs[ip] ELSE << >>

\* rl.requests[ip] = ts (the key is added when absent).
Put(reqs, ip, ts) == [k \in DOMAIN reqs \cup {ip} |-> IF k = ip THEN ts ELSE reqs[k]]

\* After, were an entry exactly one window old still counted.
After_Inclusive(t, cutoff) == t >= cutoff

\* t.After(cutoff)
After(t, cutoff) == t > cutoff

\* The filter loop of Allow and of cleanup: the entries newer than cutoff, in order.
Valid(times, cutoff) == SelectSeq(times, LAMBDA t : After(t, cutoff))

\* now.Add(-rl.window)
Cutoff(t) == t - window

\* AllowOk, were the comparison len(valid) > rl.limit.
AllowOk_OffByOne(ip, t) == ~(Len(Valid(Get(requests, ip), Cutoff(t))) > limit)

\* Allow's answer for key ip at time t: len(valid) >= rl.limit returns false.
AllowOk(ip, t) == ~(Len(Valid(Get(requests, ip), Cutoff(t))) >= limit)

\* AllowRequests, were the new timestamp appended to the stored sequence instead of
\* the filtered one.
AllowRequests_KeepsExpired(ip, t) ==
    IF AllowOk(ip, t)
    THEN Put(requests, ip, Append(Get(requests, ip), t))
    ELSE requests

\* rl.requests after Allow(ip) at time t: untouched on a rejection, the filtered
\* sequence with t appended on an acceptance.
AllowRequests(ip, t) ==
    IF AllowOk(ip, t)
    THEN Put(requests, ip, Append(Valid(Get(requests, ip), Cutoff(t)), t))
    ELSE requests

\* Swept, were a key left with no entry kept in the map.
Swept_KeepsEmptyKeys(t) == [k \in DOMAIN requests |-> Valid(requests[k], Cutoff(t))]

\* rl.requests after one cleanup cycle at time t: every key keeps its entries
\* newer than the cutoff; a key left with none is deleted.
Swept(t) ==
    LET keep == {k \in DOMAIN requests : Len(Valid(requests[k], Cutoff(t))) # 0}
    IN  [k \in keep |-> Valid(requests[k], Cutoff(t))]

NoCall == [ip |-> "none", ok |-> FALSE, prior |-> 0, stored |-> FALSE]

\* One call of RateLimiter.Allow(ip), under rl.mu, with its history.
Allow(ip) ==
    /\ requests' = AllowRequests(ip, now)
    /\ granted' = IF AllowOk(ip, now)
                  THEN [granted EXCEPT ![ip] = Append(@, now)]
                  ELSE granted
    /\ lastCall' = [ip |-> ip, ok |-> AllowOk(ip, now),
                    prior |-> Len(SelectSeq(granted[ip], LAMBDA t : t > now - window)),
                    stored |-> AllowRequests(ip, now) # requests]

\* One cycle of RateLimiter.cleanup, under rl.mu.
Sweep ==
    /\ requests' = Swept(now)
    /\ lastCall' = NoCall
    /\ UNCHANGED <<limit, window, now, granted, horizon>>
    /\ UNCHANGED <<stats, lifeVars, connVars, relayVars>>

\* The clock advances.
Tick ==
    /\ now < horizon
    /\ now' = now + 1
    /\ lastCall' = NoCall
    /\ UNCHANGED <<requests, limit, window, granted, horizon>>
    /\ UNCHANGED <<stats, lifeVars, connVars, relayVars>>

\* A step that is not the limiter's: its state and the clock stay.
LimiterIdle ==
    /\ lastCall' = NoCall
    /\ UNCHANGED <<requests, limit, window, now, granted, horizon>>

\* ------------------------------------------------------------ framing

HasNL(buf) == \E i \in 1..Len(buf) : buf[i] = NL

\* The index of the first delimiter of buf.
FirstNL(buf) == CHOOSE i \in 1..Len(buf) : buf[i] = NL /\ \A j \in 1..(i - 1) : buf[j] # NL

\* ReadBytesLine, were the delimiter stripped from the line.
ReadBytesLine_NoDelimiter(buf) == SubSeq(buf, 1, FirstNL(buf) - 1)

\* reader.ReadBytes('\n') with a delimiter in reach: the bytes up to and including
\* the first delimiter.
ReadBytesLine(buf) == SubSeq(buf, 1, FirstNL(buf))

\* What ReadBytes leaves unread.
ReadBytesRest(buf) == SubSeq(buf, FirstNL(buf) + 1, Len(buf))

\* ---------------------------------------------------- Proxy.Start

\* net.Listen succeeds.
StartListen ==
    /\ startPc = "listen"
    /\ startPc' = "store"
    /\ UNCHANGED <<maxConns, listenerStored, listenerClosed, shutdown, wg, cur, stopPc,
                   nextConn, arrivals, afterStop, preStop>>
    /\ LimiterIdle
    /\ UNCHANGED <<stats, connVars, relayVars>>

\* net.Listen fails: Start returns the error.
StartListenFails ==
    /\ startPc = "listen"
    /\ startPc' = "failed"
    /\ UNCHANGED <<maxConns, listenerStored, listenerClosed, shutdown, wg, cur, stopPc,
                   nextConn, arrivals, afterStop, preStop>>
    /\ LimiterIdle
    /\ UNCHANGED <<stats, connVars, relayVars>>

\* p.listener = listener
StartStore ==
    /\ startPc = "store"
    /\ listenerStored' = TRUE
    /\ startPc' = "accept"
    /\ UNCHANGED <<maxConns, listenerClosed, shutdown, wg, cur, stopPc,
                   nextConn, arrivals, afterStop, preStop>>
    /\ LimiterIdle
    /\ UNCHANGED <<stats, connVars, relayVars>>

\* listener.Accept() returns the next connection, from any source address.
AcceptConn ==
    /\ startPc = "accept"
    /\ ~listenerClosed
    /\ nextConn < arrivals
    /\ \E ip \in IPs : connIp' = [connIp EXCEPT ![nextConn + 1] = ip]
    /\ nextConn' = nextConn + 1
    /\ cur' = nextConn + 1
    /\ sock' = [sock EXCEPT ![nextConn + 1].client = "open"]
    /\ afterStop' = [afterStop EXCEPT ![nextConn + 1] = shutdown]
    /\ startPc' = "capacity"
    /\ UNCHANGED <<maxConns, listenerStored, listenerClosed, shutdown, wg, stopPc,
                   arrivals, preStop>>
    /\ LimiterIdle
    /\ UNCHANGED <<stats, hpc, done, connStats, relayVars>>

\* AfterAcceptError, were any Accept error to end the loop.
AfterAcceptError_Aborts == "returned"

\* What Start does with an Accept error: with p.shutdown closed it returns nil,
\* otherwise it logs and accepts again.
AfterAcceptError == IF shutdown THEN "returned" ELSE "accept"

\* listener.Accept() fails because the listener is closed.
AcceptClosed ==
    /\ startPc = "accept"
    /\ listenerClosed
    /\ startPc' = AfterAcceptError
    /\ UNCHANGED <<maxConns, listenerStored, listenerClosed, shutdown, wg, cur, stopPc,
                   nextConn, arrivals, afterStop, preStop>>
    /\ LimiterIdle
    /\ UNCHANGED <<stats, connVars, relayVars>>

\* listener.Accept() fails with a transient error on the open listener.
AcceptTransient ==
    /\ startPc = "accept"
    /\ ~listenerClosed
    /\ startPc' = AfterAcceptError
    /\ UNCHANGED <<maxConns, listenerStored, listenerClosed, shutdown, wg, cur, stopPc,
                   nextConn, arrivals, afterStop, preStop>>
    /\ LimiterIdle
    /\ UNCHANGED <<stats, connVars, relayVars>>

\* The capacity check: at or above MaxConns the connection is closed.
AtCapacity == stats.active >= maxConns

\* CheckCapacity, were the rate limiter asked before the capacity check's verdict
\* is acted on.
CheckCapacity_AfterRateLimit ==
    /\ startPc = "capacity"
    /\ Allow(connIp[cur])
    /\ IF AtCapacity \/ ~AllowOk(connIp[cur], now)
       THEN /\ sock' = [sock EXCEPT ![cur].client = "closed"]
            /\ hpc' = [hpc EXCEPT ![cur] = "rejected"]
            /\ startPc' = "accept"
       ELSE /\ startPc' = "dispatch"
            /\ UNCHANGED <<sock, hpc>>
    /\ UNCHANGED <<limit, window, now, horizon>>
    /\ UNCHANGED <<maxConns, listenerStored, listenerClosed, shutdown, wg, cur, stopPc,
                   nextConn, arrivals, afterStop, preStop>>
    /\ UNCHANGED <<stats, connIp, done, connStats, relayVars>>

CheckCapacity ==
    /\ startPc = "capacity"
    /\ IF AtCapacity
       THEN /\ sock' = [sock EXCEPT ![cur].client = "closed"]
            /\ hpc' = [hpc EXCEPT ![cur] = "rejected"]
            /\ startPc' = "accept"
       ELSE /\ startPc' = "ratelimit"
            /\ UNCHANGED <<sock, hpc>>
    /\ UNCHANGED <<maxConns, listenerStored, listenerClosed, shutdown, wg, cur, stopPc,
                   nextConn, arrivals, afterStop, preStop>>
    /\ LimiterIdle
    /\ UNCHANGED <<stats, connIp, done, connStats, relayVars>>

\* CheckRateLimit, were a connection the limiter refuses counted in
\* TotalConnections.
CheckRateLimit_CountsRejected ==
    /\ startPc = "ratelimit"
    /\ Allow(connIp[cur])
    /\ IF AllowOk(connIp[cur], now)
       THEN /\ startPc' = "dispatch"
            /\ UNCHANGED <<sock, hpc, stats>>
       ELSE /\ sock' = [sock EXCEPT ![cur].client = "closed"]
            /\ hpc' = [hpc EXCEPT ![cur] = "rejected"]
            /\ stats' = [stats EXCEPT !.total = @ + 1]
            /\ startPc' = "accept"
    /\ UNCHANGED <<limit, window, now, horizon>>
    /\ UNCHANGED <<maxConns, listenerStored, listenerClosed, shutdown, wg, cur, stopPc,
                   nextConn, arrivals, afterStop, preStop>>
    /\ UNCHANGED <<connIp, done, connStats, relayVars>>

\* The rate-limit check: p.rateLimiter.Allow(ip); a refused connection is closed.
CheckRateLimit ==
    /\ startPc = "ratelimit"
    /\ Allow(connIp[cur])
    /\ IF AllowOk(connIp[cur], now)
       THEN /\ startPc' = "dispatch"
            /\ UNCHANGED <<sock, hpc>>
       ELSE /\ sock' = [sock EXCEPT ![cur].client = "closed"]
            /\ hpc' = [hpc EXCEPT ![cur] = "rejected"]
            /\ startPc' = "accept"
    /\ UNCHANGED <<limit, window, now, horizon>>
    /\ UNCHANGED <<maxConns, listenerStored, listenerClosed, shutdown, wg, cur, stopPc,
                   nextConn, arrivals, afterStop, preStop>>
    /\ UNCHANGED <<stats, connIp, done, connStats, relayVars>>

\* p.wg.Add(1); go p.handleConnection(conn)
Dispatch ==
    /\ startPc = "dispatch"
    /\ wg' = wg + 1
    /\ hpc' = [hpc EXCEPT ![cur] = "spawned"]
    /\ startPc' = "accept"
    /\ UNCHANGED <<maxConns, listenerStored, listenerClosed, shutdown, cur, stopPc,
                   nextConn, arrivals, afterStop, preStop>>
    /\ LimiterIdle
    /\ UNCHANGED <<stats, connIp, sock, done, connStats, relayVars>>

\* ----------------------------------------------------- Proxy.Stop

\* The handlers dispatched and not yet finished.
InFlight == {c \in Conns : hpc[c] \notin {"none", "rejected", "done"}}

\* Stop is invoked: close(p.shutdown)
StopSignal ==
    /\ stopPc = "idle"
    /\ shutdown' = TRUE
    /\ preStop' = InFlight
    /\ stopPc' = "closeListener"
    /\ UNCHANGED <<maxConns, listenerStored, listenerClosed, wg, startPc, cur,
                   nextConn, arrivals, afterStop>>
    /\ LimiterIdle
    /\ UNCHANGED <<stats, connVars, relayVars>>

\* if p.listener != nil { p.listener.Close() }
StopCloseListener ==
    /\ stopPc = "closeListener"
    /\ listenerClosed' = (listenerClosed \/ listenerStored)
    /\ stopPc' = "wait"
    /\ UNCHANGED <<maxConns, listenerStored, shutdown, wg, startPc, cur,
                   nextConn, arrivals, afterStop, preStop>>
    /\ LimiterIdle
    /\ UNCHANGED <<stats, connVars, relayVars>>

\* WaitReturns, were Stop not to wait for the handlers.
WaitReturns_NoWait == TRUE

\* p.wg.Wait() returns once the counter is zero.
WaitReturns == wg = 0

StopWait ==
    /\ stopPc = "wait"
    /\ WaitReturns
    /\ stopPc' = "returned"
    /\ UNCHANGED <<maxConns, listenerStored, listenerClosed, shutdown, wg, startPc, cur,
                   nextConn, arrivals, afterStop, preStop>>
    /\ LimiterIdle
    /\ UNCHANGED <<stats, connVars, relayVars>>

\* ------------------------------------------- Proxy.handleConnection

\* atomic.AddUint64(&p.stats.TotalConnections, 1); atomic.AddInt64(&p.stats.ActiveConnections, 1)
HandlerEnter(c) ==
    /\ hpc[c] = "spawned"
    /\ stats' = [stats EXCEPT !.total = @ + 1, !.active = @ + 1]
    /\ hpc' = [hpc EXCEPT ![c] = "dial"]
    /\ LimiterIdle
    /\ UNCHANGED <<lifeVars, connIp, sock, done, connStats, relayVars>>

\* net.DialTimeout succeeds: defer tsConn.Close(), the deadlines are cleared, the
\* done channel is made and both relay goroutines are started.
DialOk(c) ==
    /\ hpc[c] = "dial"
    /\ sock' = [sock EXCEPT ![c].ts = "open"]
    /\ rpc' = [rpc EXCEPT ![c] = [d \in Dirs |-> "read"]]
    /\ hpc' = [hpc EXCEPT ![c] = "wait"]
    /\ LimiterIdle
    /\ UNCHANGED <<stats, lifeVars, connIp, done, connStats>>
    /\ UNCHANGED <<inbuf, line, wErr, tmp, sentBytes, delivered, bytesLeft>>

\* DialFails, were the return on a dial error to skip the deferred decrement.
DialFails_SkipsDecrement(c) ==
    /\ hpc[c] = "dial"
    /\ hpc' = [hpc EXCEPT ![c] = "closeClient"]
    /\ LimiterIdle
    /\ UNCHANGED <<stats, lifeVars, connIp, sock, done, connStats, relayVars>>

\* net.DialTimeout fails: the handler returns through its deferred calls, with no
\* backend socket to close.
DialFails(c) ==
    /\ hpc[c] = "dial"
    /\ hpc' = [hpc EXCEPT ![c] = "decActive"]
    /\ LimiterIdle
    /\ UNCHANGED <<stats, lifeVars, connIp, sock, done, connStats, relayVars>>

\* HandlerWake, were the handler to receive from done once per direction before it
\* goes on.
HandlerWake_WaitsForBoth(c) ==
    /\ hpc[c] = "wait"
    /\ done[c] >= 2
    /\ done' = [done EXCEPT ![c] = @ - 2]
    /\ hpc' = [hpc EXCEPT ![c] = "closeTs"]
    /\ LimiterIdle
    /\ UNCHANGED <<stats, lifeVars, connIp, sock, connStats, relayVars>>

\* <-done: the handler goes on once one direction has sent, and logs the totals.
HandlerWake(c) ==
    /\ hpc[c] = "wait"
    /\ done[c] > 0
    /\ done' = [done EXCEPT ![c] = @ - 1]
    /\ hpc' = [hpc EXCEPT ![c] = "closeTs"]
    /\ LimiterIdle
    /\ UNCHANGED <<stats, lifeVars, connIp, sock, connStats, relayVars>>

\* AfterDecActive, were the handler to return without closing the client socket.
AfterDecActive_SkipsClose == "wgDone"

\* The order of the handler's deferred calls, last registered first.
AfterCloseTs == "decActive"
AfterDecActive == "closeClient"
AfterCloseClient == "wgDone"

\* defer tsConn.Close()
HandlerCloseTs(c) ==
    /\ hpc[c] = "closeTs"
    /\ sock' = [sock EXCEPT ![c].ts = "closed"]
    /\ hpc' = [hpc EXCEPT ![c] = AfterCloseTs]
    /\ LimiterIdle
    /\ UNCHANGED <<stats, lifeVars, connIp, done, connStats, relayVars>>

\* defer atomic.AddInt64(&p.stats.ActiveConnections, -1)
HandlerDecActive(c) ==
    /\ hpc[c] = "decActive"
    /\ stats' = [stats EXCEPT !.active = @ - 1]
    /\ hpc' = [hpc EXCEPT ![c] = AfterDecActive]
    /\ LimiterIdle
    /\ UNCHANGED <<lifeVars, connIp, sock, done, connStats, relayVars>>

\* defer clientConn.Close()
HandlerCloseClient(c) ==
    /\ hpc[c] = "closeClient"
    /\ sock' = [sock EXCEPT ![c].client = "closed"]
    /\ hpc' = [hpc EXCEPT ![c] = AfterCloseClient]
    /\ LimiterIdle
    /\ UNCHANGED <<stats, lifeVars, connIp, done, connStats, relayVars>>

\* defer p.wg.Done(): the handler has returned.
HandlerDone(c) ==
    /\ hpc[c] = "wgDone"
    /\ wg' = wg - 1
    /\ hpc' = [hpc EXCEPT ![c] = "done"]
    /\ UNCHANGED <<maxConns, listenerStored, listenerClosed, shutdown, startPc, cur,
                   stopPc, nextConn, arrivals, afterStop, preStop>>
    /\ LimiterIdle
    /\ UNCHANGED <<stats, connIp, sock, done, connStats, relayVars>>

\* ------------------------------------------------ the relay directions
\* Client -> TeamSpeak is direction "c2t", TeamSpeak -> client is "t2c"; the two
\* goroutines run the same loop, and only "c2t" counts commands.

\* The capacity of the done channel: make(chan struct{}, 2).
DoneCap == 2

\* RelayBreak, were done made without a buffer: the send completes only when the
\* handler is receiving.
RelayBreak_Unbuffered(c, d) ==
    /\ done' = IF hpc[c] = "wait" /\ done[c] = 0 THEN [done EXCEPT ![c] = 1] ELSE done
    /\ rpc' = [rpc EXCEPT ![c][d] = IF hpc[c] = "wait" /\ done[c] = 0
                                     THEN "exit" ELSE "blocked"]

\* The loop has broken: done <- struct{}{} and the goroutine ends, or blocks in the
\* send when the channel is full.
RelayBreak(c, d) ==
    /\ done' = IF done[c] < DoneCap THEN [done EXCEPT ![c] = @ + 1] ELSE done
    /\ rpc' = [rpc EXCEPT ![c][d] = IF done[c] < DoneCap THEN "exit" ELSE "blocked"]

\* ReadBytes returns a line: a delimiter is in reach (the bufio.Reader may hold the
\* line already when the socket has been closed under it).
RelayRead(c, d) ==
    /\ rpc[c][d] = "read"
    /\ HasNL(inbuf[c][d])
    /\ line' = [line EXCEPT ![c][d] = ReadBytesLine(inbuf[c][d])]
    /\ inbuf' = [inbuf EXCEPT ![c][d] = ReadBytesRest(inbuf[c][d])]
    /\ rpc' = [rpc EXCEPT ![c][d] = "write"]
    /\ LimiterIdle
    /\ UNCHANGED <<stats, lifeVars, connVars>>
    /\ UNCHANGED <<wErr, tmp, sentBytes, delivered, bytesLeft>>

\* What the loop forwards of the bytes ReadBytes returns with io.EOF: err != nil,
\* so it breaks before it writes anything.
ForwardAtEOF(frames, partial) == frames

\* ReadBytes reaches end-of-stream with no delimiter: it returns what it has read
\* and io.EOF, and the loop breaks.
RelayReadEOF(c, d) ==
    /\ rpc[c][d] = "read"
    /\ ~HasNL(inbuf[c][d])
    /\ sock[c][Src(d)] = "eof"
    /\ line' = [line EXCEPT ![c][d] = inbuf[c][d]]
    /\ inbuf' = [inbuf EXCEPT ![c][d] = << >>]
    /\ delivered' = [delivered EXCEPT ![c][d] = ForwardAtEOF(@, inbuf[c][d])]
    /\ RelayBreak(c, d)
    /\ LimiterIdle
    /\ UNCHANGED <<stats, lifeVars, hpc, connIp, sock, connStats>>
    /\ UNCHANGED <<wErr, tmp, sentBytes, bytesLeft>>

\* ReadBytes fails, the handler having closed the source socket, and the loop
\* breaks.
RelayReadErr(c, d) ==
    /\ rpc[c][d] = "read"
    /\ sock[c][Src(d)] = "closed"
    /\ line' = [line EXCEPT ![c][d] = << >>]
    /\ RelayBreak(c, d)
    /\ LimiterIdle
    /\ UNCHANGED <<stats, lifeVars, hpc, connIp, sock, connStats>>
    /\ UNCHANGED <<inbuf, wErr, tmp, sentBytes, delivered, bytesLeft>>

\* Whether writer.Flush() can put the line on the destination socket: never on a
\* socket the handler has closed, and perhaps not once the peer has closed its end.
FlushOutcomes(c, d) ==
    CASE sock[c][Dst(d)] = "open" -> {TRUE}
      [] sock[c][Dst(d)] = "eof" -> {TRUE, FALSE}
      [] OTHER -> {FALSE}

\* The frames at the destination after a flush of ln that succeeded.
Flushed(frames, ln) == Append(frames, ln)

\* writer.Write(line); writer.Flush(); and the load of bytesTransferred for its +=.
\* Write only fills the buffer, and fails only when an earlier Flush has failed;
\* the error of Flush is dropped and stays in the writer.
RelayWrite(c, d) ==
    /\ rpc[c][d] = "write"
    /\ IF wErr[c][d]
       THEN /\ RelayBreak(c, d)
            /\ UNCHANGED <<wErr, delivered, tmp>>
       ELSE /\ \E ok \in FlushOutcomes(c, d) :
                 /\ delivered' = IF ok
                                 THEN [delivered EXCEPT ![c][d] = Flushed(@, line[c][d])]
                                 ELSE delivered
                 /\ wErr' = [wErr EXCEPT ![c][d] = ~ok]
            /\ tmp' = [tmp EXCEPT ![c][d] = connStats[c].bytes]
            /\ rpc' = [rpc EXCEPT ![c][d] = "count"]
            /\ UNCHANGED done
    /\ LimiterIdle
    /\ UNCHANGED <<stats, lifeVars, hpc, connIp, sock, connStats>>
    /\ UNCHANGED <<inbuf, line, sentBytes, bytesLeft>>

\* The store of bytesTransferred += len(line); commandCount++ and TotalCommands for
\* "c2t" only; TotalBytes.
RelayCount(c, d) ==
    /\ rpc[c][d] = "count"
    /\ connStats' = [connStats EXCEPT ![c].bytes = tmp[c][d] + Len(line[c][d]),
                                      ![c].cmds = IF d = "c2t" THEN @ + 1 ELSE @]
    /\ stats' = [stats EXCEPT !.commands = IF d = "c2t" THEN @ + 1 ELSE @,
                              !.bytes = @ + Len(line[c][d])]
    /\ rpc' = [rpc EXCEPT ![c][d] = "read"]
    /\ LimiterIdle
    /\ UNCHANGED <<lifeVars, hpc, connIp, sock, done>>
    /\ UNCHANGED <<inbuf, line, wErr, tmp, sentBytes, delivered, bytesLeft>>

\* ------------------------------------------------------------ the peers

\* The peer at the source of direction d sends one byte.
PeerSend(c, d) ==
    /\ sock[c][Src(d)] = "open"
    /\ bytesLeft > 0
    /\ \E b \in Bytes :
         /\ inbuf' = [inbuf EXCEPT ![c][d] = Append(@, b)]
         /\ sentBytes' = [sentBytes EXCEPT ![c][d] = Append(@, b)]
    /\ bytesLeft' = bytesLeft - 1
    /\ LimiterIdle
    /\ UNCHANGED <<stats, lifeVars, connVars>>
    /\ UNCHANGED <<rpc, line, wErr, tmp, delivered>>

\* The peer at the source of direction d closes its end of the connection.
PeerClose(c, d) ==
    /\ sock[c][Src(d)] = "open"
    /\ sock' = [sock EXCEPT ![c][Src(d)] = "eof"]
    /\ LimiterIdle
    /\ UNCHANGED <<stats, lifeVars, hpc, connIp, done, connStats, relayVars>>

\* ------------------------------------------------------ specifications

\* NewRateLimiter(limit, window): an empty map.
LimiterInit ==
    /\ requests = << >>
    /\ now = 0
    /\ granted = [k \in IPs |-> << >>]
    /\ lastCall = NoCall

\* NewProxy(config): nothing listens, no connection exists.
ProxyInit ==
    /\ stats = [total |-> 0, active |-> 0, commands |-> 0, bytes |-> 0]
    /\ listenerStored = FALSE
    /\ listenerClosed = FALSE
    /\ shutdown = FALSE
    /\ wg = 0
    /\ startPc = "listen"
    /\ cur = 0
    /\ stopPc = "idle"
    /\ nextConn = 0
    /\ hpc = [c \in Conns |-> "none"]
    /\ connIp = [c \in Conns |-> "none"]
    /\ sock = [c \in Conns |-> [client |-> "none", ts |-> "none"]]
    /\ done = [c \in Conns |-> 0]
    /\ connStats = [c \in Conns |-> [bytes |-> 0, cmds |-> 0]]
    /\ rpc = [c \in Conns |-> [d \in Dirs |-> "idle"]]
    /\ inbuf = [c \in Conns |-> [d \in Dirs |-> << >>]]
    /\ line = [c \in Conns |-> [d \in Dirs |-> << >>]]
    /\ wErr = [c \in Conns |-> [d \in Dirs |-> FALSE]]
    /\ tmp = [c \in Conns |-> [d \in Dirs |-> 0]]
    /\ sentBytes = [c \in Conns |-> [d \in Dirs |-> << >>]]
    /\ delivered = [c \in Conns |-> [d \in Dirs |-> << >>]]
    /\ afterStop = [c \in Conns |-> FALSE]
    /\ preStop = {}

\* The limiter on its own: Allow is called for any key at any time.
InitRL ==
    /\ LimiterInit
    /\ limit \in 0..MaxLimit
    /\ window \in 1..MaxWindow
    /\ ProxyInit
    /\ maxConns = 1
    /\ horizon = MaxTime
    /\ arrivals = 0
    /\ bytesLeft = 0

AllowCall ==
    \E ip \in IPs :
        /\ Allow(ip)
        /\ UNCHANGED <<limit, window, now, horizon>>
        /\ UNCHANGED <<stats, lifeVars, connVars, relayVars>>

NextRL ==
    \/ AllowCall
    \/ Sweep
    \/ Tick

SpecRL == InitRL /\ [][NextRL]_vars

\* The proxy's lifecycle: main() calls Start, a signal makes it call Stop at any
\* moment, connections come and go.  All of it happens within one instant of the
\* clock (timing is SpecRL's) and the peers send nothing (relaying is SpecRelay's).
Init ==
    /\ LimiterInit
    /\ limit \in 1..MaxLimit
    /\ window = 1
    /\ ProxyInit
    /\ maxConns \in 1..MaxM
    /\ horizon = 0
    /\ arrivals = MaxArrivals
    /\ bytesLeft = 0

\* The steps of the proxy's own goroutines with no byte to relay.
ProxyStep ==
    \/ StartListen
    \/ StartStore
    \/ AcceptClosed
    \/ CheckCapacity
    \/ CheckRateLimit
    \/ Dispatch
    \/ StopCloseListener
    \/ StopWait
    \/ \E c \in Conns :
         \/ HandlerEnter(c)
         \/ HandlerWake(c)
         \/ HandlerCloseTs(c)
         \/ HandlerDecActive(c)
         \/ HandlerCloseClient(c)
         \/ HandlerDone(c)
         \/ \E d \in Dirs :
              \/ RelayReadEOF(c, d)
              \/ RelayReadErr(c, d)

\* The steps of the world around it: the operating system, the clients, the
\* backend and the signal.
WorldStep ==
    \/ StartListenFails
    \/ AcceptConn
    \/ AcceptTransient
    \/ StopSignal
    \/ \E c \in Conns :
         \/ DialOk(c)
         \/ DialFails(c)
         \/ \E d \in Dirs : PeerClose(c, d)

Next == ProxyStep \/ WorldStep

Spec == Init /\ [][Next]_vars

\* One connection's relay: Start has admitted the first connection and dispatched
\* its handler; the peers send any bytes and close at any moment.
InitRelay ==
    /\ requests = [k \in {"ip1"} |-> <<0>>]
    /\ limit = 1
    /\ window = 1
    /\ now = 0
    /\ horizon = 0
    /\ granted = [k \in IPs |-> IF k = "ip1" THEN <<0>> ELSE << >>]
    /\ lastCall = NoCall
    /\ maxConns = 1
    /\ stats = [total |-> 0, active |-> 0, commands |-> 0, bytes |-> 0]
    /\ listenerStored = TRUE
    /\ listenerClosed = FALSE
    /\ shutdown = FALSE
    /\ wg = 1
    /\ startPc = "accept"
    /\ cur = 1
    /\ stopPc = "idle"
    /\ nextConn = 1
    /\ arrivals = 1
    /\ hpc = [c \in Conns |-> IF c = 1 THEN "spawned" ELSE "none"]
    /\ connIp = [c \in Conns |-> IF c = 1 THEN "ip1" ELSE "none"]
    /\ sock = [c \in Conns |-> [client |-> IF c = 1 THEN "open" ELSE "none", ts |-> "none"]]
    /\ done = [c \in Conns |-> 0]
    /\ connStats = [c \in Conns |-> [bytes |-> 0, cmds |-> 0]]
    /\ rpc = [c \in Conns |-> [d \in Dirs |-> "idle"]]
    /\ inbuf = [c \in Conns |-> [d \in Dirs |-> << >>]]
    /\ line = [c \in Conns |-> [d \in Dirs |-> << >>]]
    /\ wErr = [c \in Conns |-> [d \in Dirs |-> FALSE]]
    /\ tmp = [c \in Conns |-> [d \in Dirs |-> 0]]
    /\ sentBytes = [c \in Conns |-> [d \in Dirs |-> << >>]]
    /\ delivered = [c \in Conns |-> [d \in Dirs |-> << >>]]
    /\ afterStop = [c \in Conns |-> FALSE]
    /\ preStop = {}
    /\ bytesLeft = RelayBytes

NextRelay ==
    \E c \in Conns :
        \/ HandlerEnter(c)
        \/ DialOk(c)
        \/ DialFails(c)
        \/ HandlerWake(c)
        \/ HandlerCloseTs(c)
        \/ HandlerDecActive(c)
        \/ HandlerCloseClient(c)
        \/ HandlerDone(c)
        \/ \E d \in Dirs :
             \/ RelayRead(c, d)
             \/ RelayReadEOF(c, d)
             \/ RelayReadErr(c, d)
             \/ RelayWrite(c, d)
             \/ RelayCount(c, d)
             \/ PeerSend(c, d)
             \/ PeerClose(c, d)

SpecRelay == InitRelay /\ [][NextRelay]_vars

\* The proxy's lifecycle with the scheduling the Go runtime gives: a goroutine
\* that can take a step takes it in the end (Start, Stop, each handler, each relay
\* direction), and a dial returns within its timeout.  Nothing is assumed of the
\* clients, the backend or the signal.
StartStep ==
    \/ StartListen
    \/ StartListenFails
    \/ StartStore
    \/ AcceptClosed
    \/ CheckCapacity
    \/ CheckRateLimit
    \/ Dispatch

StopStep == StopCloseListener \/ StopWait

HandlerStep(c) ==
    \/ HandlerEnter(c)
    \/ DialOk(c)
    \/ DialFails(c)
    \/ HandlerWake(c)
    \/ HandlerCloseTs(c)
    \/ HandlerDecActive(c)
    \/ HandlerCloseClient(c)
    \/ HandlerDone(c)

RelayStep(c, d) == RelayReadEOF(c, d) \/ RelayReadErr(c, d)

Fairness ==
    /\ WF_vars(StartStep)
    /\ WF_vars(StopStep)
    /\ \A c \in Conns : WF_vars(HandlerStep(c))
    /\ \A c \in Conns : \A d \in Dirs : WF_vars(RelayStep(c, d))

FairSpec == Init /\ [][Next]_vars /\ Fairness

\* One connection's relay while time passes: as SpecRelay, with the clock running
\* to MaxTime and the peers sending at most TimedBytes bytes, under the Go
\* runtime's scheduling: the handler and each relay goroutine take the steps they
\* can take, and the clock advances.  Nothing is assumed of the peers.
InitTimed ==
    /\ requests = [k \in {"ip1"} |-> <<0>>]
    /\ limit = 1
    /\ window = 1
    /\ now = 0
    /\ horizon = MaxTime
    /\ granted = [k \in IPs |-> IF k = "ip1" THEN <<0>> ELSE << >>]
    /\ lastCall = NoCall
    /\ maxConns = 1
    /\ stats = [total |-> 0, active |-> 0, commands |-> 0, bytes |-> 0]
    /\ listenerStored = TRUE
    /\ listenerClosed = FALSE
    /\ shutdown = FALSE
    /\ wg = 1
    /\ startPc = "accept"
    /\ cur = 1
    /\ stopPc = "idle"
    /\ nextConn = 1
    /\ arrivals = 1
    /\ hpc = [c \in Conns |-> IF c = 1 THEN "spawned" ELSE "none"]
    /\ connIp = [c \in Conns |-> IF c = 1 THEN "ip1" ELSE "none"]
    /\ sock = [c \in Conns |-> [client |-> IF c = 1 THEN "open" ELSE "none", ts |-> "none"]]
    /\ done = [c \in Conns |-> 0]
    /\ connStats = [c \in Conns |-> [bytes |-> 0, cmds |-> 0]]
    /\ rpc = [c \in Conns |-> [d \in Dirs |-> "idle"]]
    /\ inbuf = [c \in Conns |-> [d \in Dirs |-> << >>]]
    /\ line = [c \in Conns |-> [d \in Dirs |-> << >>]]
    /\ wErr = [c \in Conns |-> [d \in Dirs |-> FALSE]]
    /\ tmp = [c \in Conns |-> [d \in Dirs |-> 0]]
    /\ sentBytes = [c \in Conns |-> [d \in Dirs |-> << >>]]
    /\ delivered = [c \in Conns |-> [d \in Dirs |-> << >>]]
    /\ afterStop = [c \in Conns |-> FALSE]
    /\ preStop = {}
    /\ bytesLeft = TimedBytes

NextTimed == NextRelay \/ Tick

SpecTimed == InitTimed /\ [][NextTimed]_vars

\* The steps of one relay goroutine.
RelayLoopStep(c, d) ==
    \/ RelayRead(c, d)
    \/ RelayReadEOF(c, d)
    \/ RelayReadErr(c, d)
    \/ RelayWrite(c, d)
    \/ RelayCount(c, d)

FairnessTimed ==
    /\ WF_vars(Tick)
    /\ \A c \in Conns : WF_vars(HandlerStep(c))
    /\ \A c \in Conns : \A d \in Dirs : WF_vars(RelayLoopStep(c, d))

FairTimed == InitTimed /\ [][NextTimed]_vars /\ FairnessTimed

\* ------------------------------------------------------------- claims

\* The grants for ip in the window of length `window` that ends at time t.
GrantsIn(ip, t) ==
    Cardinality({i \in 1..Len(granted[ip]) :
                    granted[ip][i] > t - window /\ granted[ip][i] <= t})

\* C1: for one key, at most `limit` calls of Allow return true within any trailing
\* interval (t - window, t], whatever the times of the calls and of the sweeps.
C1_AtMostLimitPerWindow ==
    \A ip \in IPs : \A t \in 0..now : GrantsIn(ip, t) <= limit

\* C1's case: a key that has been granted more than `limit` calls over time, holds
\* exactly `limit` grants in the current window and has just been refused.
C1_Witness ==
    \E ip \in IPs :
        /\ limit >= 1
        /\ Len(granted[ip]) > limit
        /\ GrantsIn(ip, now) = limit
        /\ lastCall.ip = ip
        /\ ~lastCall.ok

\* C2: Allow(k) returns true exactly when fewer than `limit` of the calls granted
\* to k before are newer than now - window, and a refused call stores nothing.
C2_AllowExact ==
    lastCall.ip # "none" =>
        /\ lastCall.ok <=> lastCall.prior < limit
        /\ ~lastCall.ok => ~lastCall.stored

\* C2's case: a call refused at a later time than the first grant, because
\* `limit` earlier grants are still in the window.
C2_Witness ==
    /\ limit >= 1
    /\ now > 0
    /\ lastCall.ip # "none"
    /\ ~lastCall.ok
    /\ lastCall.prior = limit
    /\ ~lastCall.stored

\* C3: the handlers dispatched and not yet finished never number more than
\* MaxConns; a connection accepted while MaxConns handlers are in flight gets no
\* handler.
C3_InFlightAtMostMax == Cardinality(InFlight) <= maxConns

\* C4: the ActiveConnections counter is at most MaxConns in every reachable state.
C4_ActiveAtMostMax == stats.active <= maxConns

\* C5: a connection that Accept returns after Stop has closed p.shutdown is never
\* handed to a handler.
C5_NoDispatchAfterStop ==
    \A c \in Conns : afterStop[c] => hpc[c] \in {"none", "rejected"}

\* C6: when Stop has returned, every handler that was dispatched before Stop was
\* invoked has finished and has closed its client socket and, if it dialed, its
\* backend socket.
C6_StopWaitsForHandlers ==
    stopPc = "returned" =>
        \A c \in preStop :
            /\ hpc[c] = "done"
            /\ sock[c].client = "closed"
            /\ sock[c].ts \in {"none", "closed"}

\* C6's case: Stop has returned and a handler that was relaying when Stop was
\* invoked has closed both its sockets.
C6_Witness ==
    /\ stopPc = "returned"
    /\ \E c \in preStop : sock[c].ts = "closed" /\ sock[c].client = "closed"

\* C7: every handler in flight when Stop is invoked finishes in the end, even if
\* no peer ever sends or closes (Stop, which waits for them, returns only then).
C7_StopEndsHandlers == \A c \in Conns : (c \in preStop) ~> (hpc[c] = "done")

\* C8: once Stop is invoked, Start returns in the end (nil from the accept loop,
\* or the error of a failed bind), however Stop and Start interleave.
C8_StartReturns == shutdown ~> (startPc \in {"returned", "failed"})

\* The bytes of a sequence of frames, in order.
RECURSIVE Flat(_)
Flat(frames) == IF frames = << >> THEN << >> ELSE Head(frames) \o Flat(Tail(frames))

IsPrefix(a, b) == Len(a) <= Len(b) /\ a = SubSeq(b, 1, Len(a))

\* A complete frame: it ends with the delimiter and holds no other.
WholeFrame(f) == Len(f) >= 1 /\ f[Len(f)] = NL /\ \A i \in 1..(Len(f) - 1) : f[i] # NL

\* C9: in each direction the destination is written whole newline-terminated
\* frames only, and their bytes are a prefix of the bytes the source sent: nothing
\* is reordered, duplicated, altered or dropped between two forwarded frames.
C9_FramesInOrder ==
    \A c \in Conns : \A d \in Dirs :
        /\ IsPrefix(Flat(delivered[c][d]), sentBytes[c][d])
        /\ \A i \in 1..Len(delivered[c][d]) : WholeFrame(delivered[c][d][i])

\* C9's case: a direction has forwarded two frames, one of them longer than the
\* bare delimiter, and the source has sent more since.
C9_Witness ==
    \E c \in Conns : \E d \in Dirs :
        /\ Len(delivered[c][d]) >= 2
        /\ \E i \in 1..Len(delivered[c][d]) : Len(delivered[c][d][i]) >= 2
        /\ Len(sentBytes[c][d]) > Len(Flat(delivered[c][d]))

\* C10: a direction that ended at end-of-stream with a partial trailing frame in
\* hand, its destination still open and no write having failed, has forwarded every
\* byte its source sent, the partial frame included.
C10_PartialFrameForwarded ==
    \A c \in Conns : \A d \in Dirs :
        ( /\ rpc[c][d] \in {"exit", "blocked"}
          /\ line[c][d] # << >>
          /\ line[c][d][Len(line[c][d])] # NL
          /\ ~wErr[c][d]
          /\ sock[c][Dst(d)] = "open" )
        => Flat(delivered[c][d]) = sentBytes[c][d]

\* The frames every connection has put on the destination of direction d, and their
\* bytes.
RECURSIVE FramesRelayed(_, _)
FramesRelayed(cs, d) ==
    IF cs = {} THEN 0
    ELSE LET c == CHOOSE x \in cs : TRUE
         IN  Len(delivered[c][d]) + FramesRelayed(cs \ {c}, d)

RECURSIVE BytesRelayed(_, _)
BytesRelayed(cs, d) ==
    IF cs = {} THEN 0
    ELSE LET c == CHOOSE x \in cs : TRUE
         IN  Len(Flat(delivered[c][d])) + BytesRelayed(cs \ {c}, d)

\* C11: whenever no direction is between its write and its count, TotalCommands is
\* the number of client-to-backend frames relayed and TotalBytes is the number of
\* bytes relayed in both directions.
C11_CountersMatchRelayed ==
    (\A c \in Conns : \A d \in Dirs : rpc[c][d] # "count") =>
        /\ stats.commands = FramesRelayed(Conns, "c2t")
        /\ stats.bytes = BytesRelayed(Conns, "c2t") + BytesRelayed(Conns, "t2c")

\* The handlers that have incremented ActiveConnections and not yet run the
\* deferred decrement.
Entered == {c \in Conns : hpc[c] \in {"dial", "wait", "closeTs", "decActive"}}

\* C12: ActiveConnections is never negative, is the number of handlers that have
\* entered and not yet left, on every exit path, and is 0 once every handler has
\* finished.
C12_ActiveCountsHandlers ==
    /\ stats.active >= 0
    /\ stats.active = Cardinality(Entered)
    /\ (\A c \in Conns : hpc[c] \in {"none", "rejected", "done"}) => stats.active = 0

\* C12's case: one handler has finished after a failed dial and another after a
\* relay that ended, and the counter is back to 0.
C12_Witness ==
    /\ stats.active = 0
    /\ \E a, b \in Conns :
         /\ hpc[a] = "done" /\ sock[a].ts = "none"
         /\ hpc[b] = "done" /\ sock[b].ts = "closed"

\* C13: the capacity check comes first.  The step that rejects a connection at the
\* capacity check calls no Allow and leaves the limiter's map and every key's
\* grants as they were; Allow is called only at the rate-limit check, which Start
\* reaches only from a capacity check that found room.
C13_CapacityBeforeRateLimit ==
    [][ /\ (startPc = "capacity" /\ startPc' = "accept") =>
              /\ requests' = requests
              /\ granted' = granted
              /\ lastCall' = NoCall
        /\ (lastCall'.ip # "none") => startPc = "ratelimit"
        /\ (startPc' = "ratelimit" /\ startPc # "ratelimit") =>
              (startPc = "capacity" /\ ~AtCapacity) ]_vars

\* C13's case: the second connection has been rejected while the first one's
\* handler holds the only slot, and its source, which the limiter would have
\* admitted, has no entry in the limiter.
C13_Witness ==
    /\ cur = 2
    /\ hpc[2] = "rejected"
    /\ startPc = "accept"
    /\ AtCapacity
    /\ connIp[2] \notin DOMAIN requests
    /\ granted[connIp[2]] = << >>
    /\ AllowOk(connIp[2], now)

\* C14: a sweep cycle at time `now` removes a key exactly when none of its stored
\* timestamps is newer than now - window, and a key that stays keeps exactly its
\* timestamps newer than that, in order.
C14_SweepRemovesExpiredKeys ==
    [][ Sweep =>
          \A k \in DOMAIN requests :
              /\ (k \in DOMAIN requests') <=>
                     (\E i \in 1..Len(requests[k]) : requests[k][i] > now - window)
              /\ (k \in DOMAIN requests') =>
                     requests'[k] = SelectSeq(requests[k], LAMBDA t : t > now - window) ]_vars

\* C14's case: a sweep has removed one key that had been granted, and has left
\* another with fewer timestamps than it was granted, none of them granted now.
C14_Witness ==
    \E a, b \in IPs :
        /\ granted[a] # << >>
        /\ a \notin DOMAIN requests
        /\ b \in DOMAIN requests
        /\ requests[b] # << >>
        /\ Len(requests[b]) < Len(granted[b])
        /\ \A i \in 1..Len(granted[b]) : granted[b][i] < now
        /\ \A i \in 1..Len(requests[b]) : requests[b][i] > now - window

\* The peers of connection c have been silent: neither has sent a byte or closed
\* its end.
PeersSilent(c) ==
    /\ sentBytes[c]["c2t"] = << >> /\ sentBytes[c]["t2c"] = << >>
    /\ sock[c].client = "open" /\ sock[c].ts = "open"

\* C15: an established connection whose peers stay silent is closed by the proxy in
\* the end, as time passes: its handler leaves the relay and closes its sockets.
C15_IdleConnectionClosed ==
    \A c \in Conns :
        (hpc[c] = "wait" /\ PeersSilent(c)) ~> (hpc[c] = "done" \/ ~PeersSilent(c))

\* The commands (client-to-backend frames) forwarded so far from source ip, over
\* all of its connections.
CommandsFrom(ip) == FramesRelayed({c \in Conns : connIp[c] = ip}, "c2t")

\* C16: within one window of the limiter (the clock has not advanced since the
\* first connection was admitted), the commands forwarded from any one source
\* number at most the configured rate limit.
C16_CommandsPerSecondCapped ==
    now < window => \A ip \in IPs : CommandsFrom(ip) <= limit

\* C17: once either direction of a relay has ended, at end-of-stream or on an
\* error, the handler completes, whatever the other direction does; and by the
\* time it signals completion (wg.Done) it has closed the client socket and the
\* backend socket.
C17_HandlerEndsWithFirstDirection ==
    /\ [](\A c \in Conns :
             hpc[c] = "done" =>
                 /\ sock[c].client = "closed"
                 /\ sock[c].ts \in {"none", "closed"})
    /\ \A c \in Conns :
           (\E d \in Dirs : rpc[c][d] = "exit") ~> (hpc[c] = "done")

\* C17's case: the handler has completed, both sockets closed, after one direction
\* ended, while the other direction has not ended.
C17_Witness ==
    \E c \in Conns : \E d, e \in Dirs :
        /\ hpc[c] = "done"
        /\ sock[c].client = "closed" /\ sock[c].ts = "closed"
        /\ rpc[c][d] = "exit"
        /\ rpc[c][e] \in {"read", "write", "count"}

\* C18: no send on done ever blocks, and once a handler has finished, each of its
\* relay directions ends too: none is left running or blocked.
C18_RelayTasksEnd ==
    /\ [](\A c \in Conns : \A d \in Dirs : rpc[c][d] # "blocked")
    /\ \A c \in Conns :
           (hpc[c] = "done") ~> (\A d \in Dirs : rpc[c][d] \in {"idle", "exit"})

\* C18's case: a handler that relayed has finished, both its directions have ended
\* after forwarding a frame, and the second direction's value is still in done.
C18_Witness ==
    \E c \in Conns :
        /\ hpc[c] = "done"
        /\ \A d \in Dirs : rpc[c][d] = "exit"
        /\ done[c] = 1
        /\ \E d \in Dirs : delivered[c][d] # << >>

\* The handlers whose backend dial failed: they are in their deferred calls, or
\* have finished, with no backend socket.
DialFailed == {c \in Conns : hpc[c] \in {"decActive", "closeClient", "wgDone", "done"}
                             /\ sock[c].ts = "none"}

\* The handlers that have incremented TotalConnections.
Counted == {c \in Conns : hpc[c] \notin {"none", "rejected", "spawned"}}

\* C19: a handler whose dial failed starts no relay direction and dials no more;
\* when it has finished, its client socket is closed, it has no backend socket and
\* its ActiveConnections increment is undone; TotalConnections keeps counting it,
\* and it has added nothing to the commands and bytes.
C19_DialFailureReturns ==
    /\ \A c \in DialFailed :
           /\ \A d \in Dirs : rpc[c][d] = "idle" /\ delivered[c][d] = << >>
           /\ connStats[c] = [bytes |-> 0, cmds |-> 0]
           /\ hpc[c] = "done" => sock[c].client = "closed"
    /\ stats.total = Cardinality(Counted)
    /\ stats.active = Cardinality(Entered)
    /\ (\A c \in Counted : c \in DialFailed) => stats.commands = 0 /\ stats.bytes = 0

\* C19's case: a handler has finished after a failed dial: it is counted in
\* TotalConnections, not in ActiveConnections, and its client socket is closed.
C19_Witness ==
    \E c \in DialFailed :
        /\ hpc[c] = "done"
        /\ sock[c].client = "closed"
        /\ stats.total = 1
        /\ stats.active = 0

\* C20: Start returns from its accept loop only when shutdown has been signaled,
\* and returns an error only when it could not listen; no step of Start other than
\* an Accept error, and no step of a handler, of a relay direction or of a peer,
\* makes it return.
C20_LoopEndsOnlyOnShutdown ==
    [][ /\ (startPc' = "returned" /\ startPc # "returned") =>
              (startPc = "accept" /\ shutdown)
        /\ (startPc' = "failed" /\ startPc # "failed") => startPc = "listen"
        /\ (startPc \in {"capacity", "ratelimit", "dispatch"}) =>
              startPc' \in {startPc, "ratelimit", "dispatch", "accept"} ]_vars

\* C20's case: with no shutdown signaled, one connection has been rejected, another
\* one's handler has finished after a failed dial, and Start is accepting.
C20_Witness ==
    /\ ~shutdown
    /\ startPc = "accept"
    /\ \E a, b \in Conns :
         /\ hpc[a] = "rejected"
         /\ hpc[b] = "done" /\ sock[b].ts = "none"

\* C21: the step that rejects a connection, at the capacity check or at the
\* rate-limit check, closes its client socket and changes no Stats counter and
\* not the WaitGroup; a rejected connection never gets a handler or a relay.
C21_RejectionLeavesStats ==
    [][ \A c \in Conns :
          /\ (hpc'[c] = "rejected" /\ hpc[c] # "rejected") =>
                 /\ stats' = stats
                 /\ wg' = wg
                 /\ sock'[c].client = "closed"
                 /\ sock'[c].ts = "none"
          /\ hpc[c] = "rejected" =>
                 /\ hpc'[c] = "rejected"
                 /\ rpc'[c] = [d \in Dirs |-> "idle"] ]_vars

\* C21's case: the limiter has just refused the second connection, which is
\* closed, and TotalConnections counts the first connection only.
C21_Witness ==
    /\ hpc[2] = "rejected"
    /\ sock[2].client = "closed"
    /\ lastCall.ip = connIp[2]
    /\ ~lastCall.ok
    /\ hpc[1] = "done"
    /\ stats.total = 1
    /\ stats.active = 0

\* C22: TotalCommands and TotalBytes count forwarded frames only: they never exceed
\* the client-to-backend frames, and the bytes, that have been put on their
\* destination.
C22_OnlyForwardedCounted ==
    /\ stats.commands <= FramesRelayed(Conns, "c2t")
    /\ stats.bytes <= BytesRelayed(Conns, "c2t") + BytesRelayed(Conns, "t2c")

\* The sum of the lengths of the frames the two directions of connection c have
\* counted, when c is the only connection: each count adds the same length to
\* TotalBytes, atomically.
CountedBytes(c) == stats.bytes

\* C23: when the handler of the only connection wakes from <-done to log its
\* totals, bytesTransferred is the sum of the lengths of the frames its two
\* directions have counted (which, with one connection, is what TotalBytes holds).
C23_ByteCounterLosesNothing ==
    (Cardinality(Counted) = 1) =>
        \A c \in Counted : hpc[c] = "closeTs" => connStats[c].bytes = CountedBytes(c)

\* C24: every key present in rl.requests holds at least one timestamp and at most
\* `limit` of them, after any interleaving of Allow calls and sweep cycles.
C24_KeysHoldOneToLimit ==
    \A k \in DOMAIN requests : Len(requests[k]) >= 1 /\ Len(requests[k]) <= limit

\* C24's case: time has passed, one key is full, with `limit` timestamps and a
\* limit above 1, and a sweep has removed another key that had been granted.
C24_Witness ==
    /\ limit >= 2
    /\ now > 0
    /\ \E a, b \in IPs :
         /\ a \in DOMAIN requests
         /\ Len(requests[a]) = limit
         /\ Len(granted[a]) > limit
         /\ granted[b] # << >>
         /\ b \notin DOMAIN requests

=============================================================================
